---- MODULE Spec2Model ----
(***************************************************************************)
(* Credential lifecycle of the jh command-line client: JWT expiry, token   *)
(* store, ensureValidToken, the git credential helper and the auth.toml    *)
(* writers (TypeScript service and Go run command).                        *)
(*                                                                         *)
(* Conventions.  A JavaScript value that is undefined, null or the empty   *)
(* string is the empty value of its type: "" for strings, << >> for a      *)
(* token, 0 for a number.  A JWT is the sequence of its dot-separated      *)
(* segments; a segment is a record whose field json tells what JSON.parse  *)
(* makes of the decoded bytes.  A host name is the sequence of its         *)
(* fragments, so that suffix and substring tests are computed.             *)
(***************************************************************************)
EXTENDS Integers, Sequences, FiniteSets, TLC

VARIABLES
    now,        \* wall clock, whole seconds since the epoch
    store,      \* content of ~/.juliahub
    authFile,   \* server -> content of ~/.julia/servers/<server>/auth.toml
    tmpFiles,   \* temporary path -> content, for the paths that exist
    pr,         \* process -> locals of the command it is running
    fn          \* argument and result of the pure function under test

vars == <<now, store, authFile, tmpFiles, pr, fn>>

----------------------------------------------------------------------------
\* Bounds

MaxExp == 3
MaxNow == 1
MaxSub == 1
MaxPolls == 2
MaxLines == 3
TokenLife == 2

\* Date.now() is in milliseconds; the code divides by 1000
MsPerSec == 1000

\* two invocations of the CLI that may overlap in time
Procs == {1, 2}

----------------------------------------------------------------------------
\* JWT values

OpaqueSeg == [json |-> "invalid"]
NullSeg == [json |-> "null"]
ClaimSeg(e, i, n, m) ==
    [json |-> "object", exp |-> e, iat |-> i, name |-> n, email |-> m]

Jwt(payload) == <<OpaqueSeg, payload, OpaqueSeg>>

\* tokenString.split('.') has exactly three parts and JSON.parse succeeds
decodeOk(tokenString) ==
    /\ Len(tokenString) = 3
    /\ tokenString[2].json # "invalid"

\* the value JSON.parse returns
decodeJWT(tokenString) == tokenString[2]

\* reading a property of the decoded value throws for null
claimsReadable(tokenString) ==
    /\ decodeOk(tokenString)
    /\ decodeJWT(tokenString).json = "object"

\* Math.floor(Date.now() / 1000)
FloorSeconds(ms) == ms \div MsPerSec

\* Date.now() at a moment of the current second
DateNow(sub) == now * MsPerSec + sub

isTokenExpired_strict(accessToken, expiresIn, ms) ==
    IF ~claimsReadable(accessToken) THEN TRUE
    ELSE LET claims == decodeJWT(accessToken) IN
         IF claims.exp > 0 THEN FloorSeconds(ms) > claims.exp
         ELSE IF claims.iat > 0 /\ expiresIn > 0
              THEN FloorSeconds(ms) > claims.iat + expiresIn
              ELSE TRUE

isTokenExpired_failopen(accessToken, expiresIn, ms) ==
    IF ~claimsReadable(accessToken) THEN FALSE
    ELSE LET claims == decodeJWT(accessToken) IN
         IF claims.exp > 0 THEN FloorSeconds(ms) >= claims.exp
         ELSE IF claims.iat > 0 /\ expiresIn > 0
              THEN FloorSeconds(ms) >= claims.iat + expiresIn
              ELSE FALSE

isTokenExpired_inverted(accessToken, expiresIn, ms) ==
    IF ~claimsReadable(accessToken) THEN TRUE
    ELSE LET claims == decodeJWT(accessToken) IN
         IF claims.exp > 0 THEN FloorSeconds(ms) < claims.exp
         ELSE IF claims.iat > 0 /\ expiresIn > 0
              THEN FloorSeconds(ms) < claims.iat + expiresIn
              ELSE TRUE

isTokenExpired(accessToken, expiresIn, ms) ==
    IF ~claimsReadable(accessToken) THEN TRUE
    ELSE LET claims == decodeJWT(accessToken) IN
         IF claims.exp > 0 THEN FloorSeconds(ms) >= claims.exp
         ELSE IF claims.iat > 0 /\ expiresIn > 0
              THEN FloorSeconds(ms) >= claims.iat + expiresIn
              ELSE TRUE

----------------------------------------------------------------------------
\* Host names

HMain == <<"juliahub", ".com">>
HAuth == <<"auth", ".", "juliahub", ".com">>
HBrand == <<"my", "juliahub">>
HCustom == <<"example", ".com">>
HOther == <<"unrelated-host", ".", "example", ".com">>
HNone == << >>

EndsWith(h, suffix) ==
    /\ Len(h) >= Len(suffix)
    /\ SubSeq(h, Len(h) - Len(suffix) + 1, Len(h)) = suffix

Includes(h, fragment) == \E i \in 1..Len(h) : h[i] = fragment

normalizeServer(server) ==
    IF EndsWith(server, <<".com">>) \/ EndsWith(server, <<".dev">>)
    THEN server
    ELSE server \o <<".", "juliahub", ".com">>

isJuliaHubURL_any(host) == host # << >>

\* the lookup of the configured server is started and its result dropped:
\* both of its branches return false
isJuliaHubURL(host) ==
    IF host = << >> THEN FALSE
    ELSE IF EndsWith(host, HMain) THEN TRUE
    ELSE IF Includes(host, "juliahub") THEN TRUE
    ELSE FALSE

authServerOf(server) == IF server = HMain THEN HAuth ELSE server

GetHosts == {HMain, HBrand, HCustom, HOther, HNone}
Servers == {HMain, HCustom, normalizeServer(HBrand)}

----------------------------------------------------------------------------
\* The token store ~/.juliahub: a line-oriented key=value file

Line(k, str, tok, num) == [key |-> k, s |-> str, t |-> tok, n |-> num]

NoStoreFile == [exists |-> FALSE, lines |-> << >>]
StoreFile(ls) == [exists |-> TRUE, lines |-> ls]

NoToken ==
    [accessToken |-> << >>, refreshToken |-> "", tokenType |-> "",
     expiresIn |-> 0, idToken |-> << >>, server |-> << >>,
     name |-> "", email |-> ""]

OptLine(cond, l) == IF cond THEN <<l>> ELSE << >>

configContent_tokenServer(server, token) ==
    <<Line("server", "", token.server, 0)>>
    \o OptLine(token.accessToken # << >>,
               Line("access_token", "", token.accessToken, 0))
    \o OptLine(token.tokenType # "", Line("token_type", token.tokenType, << >>, 0))
    \o OptLine(token.refreshToken # "",
               Line("refresh_token", token.refreshToken, << >>, 0))
    \o OptLine(token.expiresIn # 0, Line("expires_in", "", << >>, token.expiresIn))
    \o OptLine(token.idToken # << >>, Line("id_token", "", token.idToken, 0))
    \o OptLine(token.name # "", Line("name", token.name, << >>, 0))
    \o OptLine(token.email # "", Line("email", token.email, << >>, 0))

\* the content writeTokenToConfig builds
configContent(server, token) ==
    <<Line("server", "", server, 0)>>
    \o OptLine(token.accessToken # << >>,
               Line("access_token", "", token.accessToken, 0))
    \o OptLine(token.tokenType # "", Line("token_type", token.tokenType, << >>, 0))
    \o OptLine(token.refreshToken # "",
               Line("refresh_token", token.refreshToken, << >>, 0))
    \o OptLine(token.expiresIn # 0, Line("expires_in", "", << >>, token.expiresIn))
    \o OptLine(token.idToken # << >>, Line("id_token", "", token.idToken, 0))
    \o OptLine(token.name # "", Line("name", token.name, << >>, 0))
    \o OptLine(token.email # "", Line("email", token.email, << >>, 0))

LinesWith(ls, k) == {i \in 1..Len(ls) : ls[i].key = k}
Last(S) == CHOOSE i \in S : \A j \in S : j <= i
First(S) == CHOOSE i \in S : \A j \in S : i <= j

LastLine_first(ls, k) ==
    IF LinesWith(ls, k) = {} THEN Line(k, "", << >>, 0)
    ELSE ls[First(LinesWith(ls, k))]

\* the value the parsing loop of readStoredToken leaves for a key
LastLine(ls, k) ==
    IF LinesWith(ls, k) = {} THEN Line(k, "", << >>, 0)
    ELSE ls[Last(LinesWith(ls, k))]

\* line.trim() before the key is cut off: white space at the end of the
\* value is lost, white space after the = sign stays.  Strings are atoms
\* here, so the values that end in white space are listed.
valueOfTrimmed(str) ==
    CASE str = "new " -> "new"
      [] str = " " -> ""
      [] OTHER -> str

parseStoredToken(ls) ==
    [accessToken |-> LastLine(ls, "access_token").t,
     refreshToken |-> valueOfTrimmed(LastLine(ls, "refresh_token").s),
     tokenType |-> valueOfTrimmed(LastLine(ls, "token_type").s),
     expiresIn |-> LastLine(ls, "expires_in").n,
     idToken |-> LastLine(ls, "id_token").t,
     server |-> LastLine(ls, "server").t,
     name |-> valueOfTrimmed(LastLine(ls, "name").s),
     email |-> valueOfTrimmed(LastLine(ls, "email").s)]

\* readStoredToken throws: the file cannot be read, or no access token
readStoredTokenFails(file) ==
    \/ ~file.exists
    \/ parseStoredToken(file.lines).accessToken = << >>

readStoredToken(file) == parseStoredToken(file.lines)

readConfigFile(file) ==
    IF ~file.exists THEN HMain
    ELSE IF LinesWith(file.lines, "server") = {} THEN HMain
    ELSE file.lines[First(LinesWith(file.lines, "server"))].t

----------------------------------------------------------------------------
\* Token endpoint replies

NoBody ==
    [access_token |-> << >>, token_type |-> "", refresh_token |-> "",
     expires_in |-> 0, id_token |-> << >>, error |-> ""]

IdOld == Jwt(ClaimSeg(9, 0, "old", "old@"))
IdNew == Jwt(ClaimSeg(9, 0, "new", "new@"))

\* an access token issued at time t
Access(t) == Jwt(ClaimSeg(t + TokenLife, t, "", ""))

IssuedBodies ==
    { [NoBody EXCEPT !.access_token = Access(now), !.token_type = "bearer",
                     !.refresh_token = r, !.expires_in = TokenLife,
                     !.id_token = i] :
        r \in {"", "r1"}, i \in {IdNew, << >>} }

ErrorBody(e) == [NoBody EXCEPT !.error = e]

\* status is the HTTP status class, parsed tells whether the body is JSON
Reply(st, js, b) == [ok |-> st, parsed |-> js, body |-> b]

\* a body with every token field set
FullBody ==
    [NoBody EXCEPT !.access_token = Access(now), !.token_type = "bearer",
                   !.refresh_token = "r1", !.expires_in = TokenLife,
                   !.id_token = IdNew]

RefreshReplies ==
    { Reply(FALSE, FALSE, NoBody), Reply(TRUE, TRUE, ErrorBody("invalid_grant")),
      Reply(TRUE, TRUE, NoBody),
      Reply(FALSE, TRUE, FullBody),
      Reply(TRUE, TRUE, [FullBody EXCEPT !.error = "invalid_grant"]) }
    \cup { Reply(TRUE, TRUE, b) : b \in IssuedBodies }

PollReplies ==
    { Reply(FALSE, TRUE, ErrorBody("authorization_pending")),
      Reply(FALSE, TRUE, ErrorBody("access_denied")),
      Reply(TRUE, TRUE, NoBody),
      Reply(FALSE, FALSE, NoBody),
      Reply(TRUE, TRUE, [FullBody EXCEPT !.error = "access_denied"]) }
    \cup { Reply(TRUE, TRUE, b) : b \in IssuedBodies }

----------------------------------------------------------------------------
\* StoredToken values built from a token response

tokenResponseToStored(server, token) ==
    LET readable == token.id_token # << >> /\ claimsReadable(token.id_token)
        claims == decodeJWT(token.id_token)
    IN  [accessToken |-> token.access_token,
         refreshToken |-> token.refresh_token,
         tokenType |-> token.token_type,
         expiresIn |-> token.expires_in,
         idToken |-> token.id_token,
         server |-> server,
         name |-> IF readable /\ claims.name # "" THEN claims.name ELSE "",
         email |-> IF readable /\ claims.email # "" THEN claims.email ELSE ""]

updatedToken_noServer(storedToken, refreshedToken) ==
    tokenResponseToStored(<< >>, refreshedToken)

\* updatedToken of ensureValidToken
updatedToken(storedToken, refreshedToken) ==
    LET readable == refreshedToken.id_token # << >>
                       /\ claimsReadable(refreshedToken.id_token)
        claims == decodeJWT(refreshedToken.id_token)
    IN  [accessToken |-> refreshedToken.access_token,
         refreshToken |-> refreshedToken.refresh_token,
         tokenType |-> refreshedToken.token_type,
         expiresIn |-> refreshedToken.expires_in,
         idToken |-> refreshedToken.id_token,
         server |-> storedToken.server,
         name |-> IF readable /\ claims.name # "" THEN claims.name
                  ELSE storedToken.name,
         email |-> IF readable /\ claims.email # "" THEN claims.email
                   ELSE storedToken.email]

----------------------------------------------------------------------------
\* auth.toml and its temporary files

NoToml ==
    [expires_at |-> 0, id_token |-> << >>, access_token |-> << >>,
     refresh_token |-> "", refresh_url |-> << >>, expires_in |-> 0,
     user_email |-> "", name |-> ""]

tomlContent(server, token) ==
    [expires_at |-> decodeJWT(token.idToken).exp,
     id_token |-> token.idToken,
     access_token |-> token.accessToken,
     refresh_token |-> token.refreshToken,
     refresh_url |-> authServerOf(server),
     expires_in |-> token.expiresIn,
     user_email |-> token.email,
     name |-> token.name]

\* a file: whether the path exists, whether its bytes are the whole content c,
\* and the processes that hold it open
FAbsent == [exists |-> FALSE, full |-> FALSE, c |-> NoToml, fds |-> {}]

\* open(path, O_WRONLY | O_CREAT | O_TRUNC) by process p
Truncated(f, p) ==
    [exists |-> TRUE, full |-> FALSE, c |-> NoToml,
     fds |-> (IF f.exists THEN f.fds ELSE {}) \cup {p}]

\* write of the whole content through the descriptor of p, then close
Written(f, p, content) ==
    IF f.exists /\ p \in f.fds
    THEN [exists |-> TRUE, full |-> TRUE, c |-> content, fds |-> f.fds \ {p}]
    ELSE f

Closed(f, p) == IF f.exists THEN [f EXCEPT !.fds = @ \ {p}] ELSE f

\* what a reader of the path sees
Seen(f) == [exists |-> f.exists, full |-> f.full, c |-> f.c]

Stamps == { t * MsPerSec + sub : t \in 0..MaxNow, sub \in 0..MaxSub }
TempPaths == Servers \X Stamps

\* path.join(serverDir, `.auth.toml.tmp.${Date.now()}`)
tempFileOf(server, ms) == <<server, ms>>

----------------------------------------------------------------------------
\* Processes

\* what a caller of refreshToken can observe of the reply it got
NoRep ==
    [seen |-> FALSE, ok |-> FALSE, parsed |-> FALSE, error |-> "",
     token |-> FALSE, refresh |-> ""]
RepOf(r) ==
    [seen |-> TRUE, ok |-> r.ok, parsed |-> r.parsed, error |-> r.body.error,
     token |-> r.body.access_token # << >>, refresh |-> r.body.refresh_token]

L0 ==
    [pc |-> "idle", cmd |-> "", host |-> << >>, phase |-> 0, inCatch |-> FALSE,
     rd |-> NoToken, tok |-> NoToken,
     out |-> << >>, exit |-> "", err |-> "",
     nreq |-> 0, evReq |-> 0, evRes |-> "", nflow |-> 0, polls |-> 0,
     sleeps |-> 0,
     wrote |-> 0, dfRes |-> "", warn |-> FALSE, rep |-> NoRep,
     srv |-> << >>, tmp |-> << >>, pre |-> Seen(FAbsent),
     dirty |-> FALSE, stage |-> "", cleaned |-> FALSE]

Terminal == {"idle", "done", "failed", "killed"}

\* the commands that call setupJuliaCredentials
ProjCmds == {"setup", "login", "refresh"}
CjPcs == {"cj_start", "cj_fill", "cj_rename", "cj_cleanup"}

CredLine(k, str, tok) == [key |-> k, s |-> str, t |-> tok]

\* console.log('username=oauth2'); console.log(`password=${idToken}`)
CredLines(idToken) ==
    <<CredLine("username", "oauth2", << >>), CredLine("password", "", idToken)>>

\* the locals that no longer matter once the process has ended
Ended(l) ==
    [l EXCEPT !.rd = NoToken, !.phase = 0, !.inCatch = FALSE, !.polls = 0,
              !.sleeps = 0]

Done(l) == [Ended(l) EXCEPT !.pc = "done", !.exit = "ok"]
Fail(l, e) == [Ended(l) EXCEPT !.pc = "failed", !.exit = "fail", !.err = e]

\* console.log(`Warning: Failed to setup Julia credentials: ${error}`), and the
\* action returns
Warned(l, e) == [Done(l) EXCEPT !.err = e]

InProjectorTry_never(l) == FALSE

\* the call is inside the try block around setupJuliaCredentials of the
\* login and refresh actions
InProjectorTry(l) == l.cmd \in {"login", "refresh"} /\ l.phase > 0
Killed(l) ==
    [L0 EXCEPT !.pc = "killed", !.cmd = l.cmd, !.host = l.host, !.out = l.out,
               !.srv = l.srv, !.tmp = l.tmp, !.pre = l.pre, !.dirty = l.dirty,
               !.stage = l.stage, !.wrote = l.wrote]

\* an exception leaves the current call: the catch block of gitCredentialGet
\* starts the device flow, the login and refresh actions log a failure of
\* setupJuliaCredentials, every other caller exits non-zero
OnThrow(l, e) ==
    IF l.cmd = "get" /\ ~l.inCatch
    THEN [l EXCEPT !.pc = "df_request", !.inCatch = TRUE,
                   !.srv = normalizeServer(l.host)]
    ELSE IF InProjectorTry(l) THEN Warned(l, e)
    ELSE Fail(l, e)

\* ensureValidToken returned l.tok to its caller
OnEnsureOk(l) ==
    CASE l.cmd = "get" -> Done([l EXCEPT !.out = CredLines(l.tok.idToken)])
      [] l.cmd \in ProjCmds /\ l.phase = 1 -> [l EXCEPT !.pc = "ev_read", !.phase = 2]
      [] l.cmd \in ProjCmds /\ l.phase = 2 -> [l EXCEPT !.pc = "cj_start"]
      [] OTHER -> Done(l)

Set(p, l) == pr' = [pr EXCEPT ![p] = l]

\* the test of ensureValidToken on storedToken.refreshToken
canRefresh_always(storedToken) == TRUE

canRefresh(storedToken) == storedToken.refreshToken # ""

\* a process is one invocation of the CLI: one command, then it exits
CanStart(p) == pr[p].pc = "idle"

\* any command that only needs a valid token (datasets, projects, user ...)
StartApi(p) ==
    /\ CanStart(p)
    /\ Set(p, [L0 EXCEPT !.pc = "ev_read", !.cmd = "api"])
    /\ UNCHANGED <<now, store, authFile, tmpFiles, fn>>

\* ensureValidToken up to the refresh request
EvRead(p) ==
    LET l == pr[p] IN
    /\ l.pc = "ev_read"
    /\ \E sub \in 0..MaxSub :
         IF readStoredTokenFails(store)
         THEN Set(p, OnThrow([l EXCEPT !.evRes = "NotAuthenticated", !.evReq = 0],
                             "NotAuthenticated"))
         ELSE LET storedToken == readStoredToken(store)
                  expired == isTokenExpired(storedToken.accessToken,
                                            storedToken.expiresIn, DateNow(sub))
                  l1 == [l EXCEPT !.rd = storedToken, !.evReq = 0]
              IN  IF ~expired
                  THEN Set(p, OnEnsureOk([l1 EXCEPT !.tok = storedToken,
                                                    !.evRes = "fast"]))
                  ELSE IF ~canRefresh(storedToken)
                  THEN Set(p, OnThrow([l1 EXCEPT !.evRes = "RefreshUnavailable"],
                                      "RefreshUnavailable"))
                  ELSE Set(p, [l1 EXCEPT !.pc = "ev_refresh", !.evReq = 1,
                                         !.nreq = @ + 1, !.evRes = "refreshing"])
    /\ UNCHANGED <<now, store, authFile, tmpFiles, fn>>

refreshThrows_bodyOnly(r) ==
    r.body.access_token = << >>

\* refreshToken throws on a non-2xx status, on an error field, and on a body
\* without access_token
refreshThrows(r) ==
    ~r.ok \/ r.body.error # "" \/ r.body.access_token = << >>

\* the reply to the refresh request; a good one opens the store for writing
EvResponse(p) ==
    /\ pr[p].pc = "ev_refresh"
    /\ \E r \in RefreshReplies, opened \in BOOLEAN :
         LET l == [pr[p] EXCEPT !.rep = RepOf(r)] IN
         IF refreshThrows(r)
         THEN /\ Set(p, OnThrow([l EXCEPT !.evRes = "RefreshFailed"], "RefreshFailed"))
              /\ store' = store
         ELSE IF ~opened
         THEN /\ Set(p, OnThrow([l EXCEPT !.evRes = "WriteFailed"], "WriteFailed"))
              /\ store' = store
         ELSE /\ Set(p, [l EXCEPT !.pc = "ev_fill",
                                  !.tok = updatedToken(l.rd, r.body)])
              /\ store' = StoreFile(<< >>)
    /\ UNCHANGED <<now, authFile, tmpFiles, fn>>

\* writeTokenToConfig(storedToken.server, updatedToken) completes
EvFill(p) ==
    LET l == pr[p] IN
    /\ l.pc = "ev_fill"
    /\ store' = StoreFile(configContent(l.rd.server, l.tok))
    /\ Set(p, OnEnsureOk([l EXCEPT !.evRes = "refreshed", !.wrote = @ + 1]))
    /\ UNCHANGED <<now, authFile, tmpFiles, fn>>

----------------------------------------------------------------------------
\* git-credential get

StartGet(p, h) ==
    /\ CanStart(p)
    /\ IF ~isJuliaHubURL(h)
       THEN Set(p, Done([L0 EXCEPT !.cmd = "get", !.host = h]))
       ELSE Set(p, [L0 EXCEPT !.cmd = "get", !.host = h, !.pc = "gg_read"])
    /\ UNCHANGED <<now, store, authFile, tmpFiles, fn>>

GgRead(p) ==
    LET l == pr[p] IN
    /\ l.pc = "gg_read"
    /\ IF readStoredTokenFails(store)
       THEN Set(p, OnThrow(l, "NoStoredToken"))
       ELSE IF readStoredToken(store).server # l.host
       THEN Set(p, [l EXCEPT !.pc = "df_request",
                            !.srv = normalizeServer(l.host)])
       ELSE Set(p, [l EXCEPT !.pc = "ev_read"])
    /\ UNCHANGED <<now, store, authFile, tmpFiles, fn>>

DfRequest_ignoresStatus(p) ==
    LET l == [pr[p] EXCEPT !.nflow = @ + 1, !.nreq = @ + 1, !.polls = 0,
                           !.sleeps = 0] IN
    /\ pr[p].pc = "df_request"
    /\ \E ok \in BOOLEAN, parsed \in BOOLEAN :
         IF ~ok
         THEN Set(p, [l EXCEPT !.pc = "df_display",
                               !.dfRes = "DeviceCodeRequestFailed"])
         ELSE IF ~parsed
         THEN Set(p, OnThrow([l EXCEPT !.dfRes = "InvalidDeviceBody"],
                             "InvalidDeviceBody"))
         ELSE Set(p, [l EXCEPT !.pc = "df_display", !.dfRes = "requested"])
    /\ UNCHANGED <<now, store, authFile, tmpFiles, fn>>

\* deviceFlow: the device-code request, the test of its status and the
\* parsing of its body
DfRequest(p) ==
    LET l == [pr[p] EXCEPT !.nflow = @ + 1, !.nreq = @ + 1, !.polls = 0,
                           !.sleeps = 0] IN
    /\ pr[p].pc = "df_request"
    /\ \E ok \in BOOLEAN, parsed \in BOOLEAN :
         IF ~ok
         THEN Set(p, OnThrow([l EXCEPT !.dfRes = "DeviceCodeRequestFailed"],
                             "DeviceCodeRequestFailed"))
         ELSE IF ~parsed
         THEN Set(p, OnThrow([l EXCEPT !.dfRes = "InvalidDeviceBody"],
                             "InvalidDeviceBody"))
         ELSE Set(p, [l EXCEPT !.pc = "df_display", !.dfRes = "requested"])
    /\ UNCHANGED <<now, store, authFile, tmpFiles, fn>>

\* deviceFlow: the verification URI is printed and the 15 s wait passes
DfDisplay(p) ==
    LET l == pr[p] IN
    /\ l.pc = "df_display"
    /\ Set(p, [l EXCEPT !.pc = "df_poll", !.dfRes = "waiting"])
    /\ UNCHANGED <<now, store, authFile, tmpFiles, fn>>

\* the warning of deviceFlow about a response without refresh token
warnsNoRefresh_never(tokenData) == FALSE

warnsNoRefresh(tokenData) == tokenData.refresh_token = ""

\* the caller of deviceFlow, which converts and saves the token
FillPc(l) == IF l.cmd = "login" THEN "lg_fill" ELSE "gg_fill"

pollOutcome_tokenFirst(r) ==
    IF ~r.parsed THEN "InvalidPollBody"
    ELSE IF r.body.access_token # << >> THEN "authorized"
    ELSE IF r.body.error # ""
    THEN IF r.body.error = "authorization_pending" THEN "pending"
         ELSE "AuthorizationFailed"
    ELSE "empty"

\* what one iteration of the poll loop does with the response: tokenResp.json()
\* throws on a body that is not JSON, then the error field is tested, then
\* access_token; with neither, the loop goes round again
pollOutcome(r) ==
    IF ~r.parsed THEN "InvalidPollBody"
    ELSE IF r.body.error # ""
    THEN IF r.body.error = "authorization_pending" THEN "pending"
         ELSE "AuthorizationFailed"
    ELSE IF r.body.access_token # << >> THEN "authorized"
    ELSE "empty"

\* deviceFlow: one 4 s sleep and one poll; an access token ends the flow and the
\* caller converts it and opens the store for writing
DfPoll(p) ==
    /\ pr[p].pc = "df_poll"
    /\ \E r \in PollReplies, opened \in BOOLEAN :
         LET o == pollOutcome(r)
             l == [pr[p] EXCEPT !.nreq = @ + 1, !.polls = @ + 1,
                                !.sleeps = @ + 1,
                                !.dfRes = o, !.rep = RepOf(r)]
         IN  IF o \in {"pending", "empty"}
             THEN /\ pr[p].polls < MaxPolls
                  /\ Set(p, l)
                  /\ store' = store
             ELSE IF o # "authorized"
             THEN /\ Set(p, OnThrow(l, o))
                  /\ store' = store
             ELSE LET l1 == [l EXCEPT !.warn = warnsNoRefresh(r.body)] IN
                  IF ~opened
                  THEN /\ Set(p, OnThrow(l1, "WriteFailed"))
                       /\ store' = store
                  ELSE /\ Set(p, [l1 EXCEPT !.pc = FillPc(l),
                                            !.tok = tokenResponseToStored(l.srv, r.body)])
                       /\ store' = StoreFile(<< >>)
    /\ UNCHANGED <<now, authFile, tmpFiles, fn>>

GgFill_requestedServer(p) ==
    LET l == pr[p] IN
    /\ l.pc = "gg_fill"
    /\ store' = StoreFile(configContent(l.host, l.tok))
    /\ Set(p, [l EXCEPT !.pc = "gg_emit", !.wrote = @ + 1])
    /\ UNCHANGED <<now, authFile, tmpFiles, fn>>

\* writeTokenToConfig(normalizedServer, storedToken) completes; the idToken of
\* storedToken is the id_token of the response, which the output uses
GgFill(p) ==
    LET l == pr[p] IN
    /\ l.pc = "gg_fill"
    /\ store' = StoreFile(configContent(l.srv, l.tok))
    /\ Set(p, [l EXCEPT !.pc = "gg_emit", !.wrote = @ + 1])
    /\ UNCHANGED <<now, authFile, tmpFiles, fn>>

GgEmit(p) ==
    LET l == pr[p] IN
    /\ l.pc = "gg_emit"
    /\ Set(p, Done([l EXCEPT !.out = CredLines(l.tok.idToken)]))
    /\ UNCHANGED <<now, store, authFile, tmpFiles, fn>>

----------------------------------------------------------------------------
\* git-credential store and git-credential erase

HelperVerbs == {"store", "erase"}

StartStoreErase_answers(p, verb, h) ==
    /\ CanStart(p)
    /\ Set(p, Done([L0 EXCEPT !.cmd = verb, !.host = h,
                              !.out = CredLines(readStoredToken(store).idToken)]))
    /\ UNCHANGED <<now, store, authFile, tmpFiles, fn>>

\* gitCredentialHelper: the store and erase cases break out of the switch
StartStoreErase(p, verb, h) ==
    /\ CanStart(p)
    /\ Set(p, Done([L0 EXCEPT !.cmd = verb, !.host = h]))
    /\ UNCHANGED <<now, store, authFile, tmpFiles, fn>>

----------------------------------------------------------------------------
\* auth login

LoginServers == {HMain, HCustom}

StartLogin(p, server) ==
    /\ CanStart(p)
    /\ Set(p, [L0 EXCEPT !.cmd = "login", !.pc = "df_request",
                         !.srv = normalizeServer(server)])
    /\ UNCHANGED <<now, store, authFile, tmpFiles, fn>>

\* writeTokenToConfig(server, storedToken) completes; setupJuliaCredentials
\* starts and reads the server
LgFill(p) ==
    LET l == pr[p] IN
    /\ l.pc = "lg_fill"
    /\ store' = StoreFile(configContent(l.srv, l.tok))
    /\ Set(p, [l EXCEPT !.pc = "ev_read", !.phase = 1, !.wrote = @ + 1,
                        !.srv = readConfigFile(store')])
    /\ UNCHANGED <<now, authFile, tmpFiles, fn>>

----------------------------------------------------------------------------
\* auth refresh

StartRefresh(p) ==
    /\ CanStart(p)
    /\ Set(p, [L0 EXCEPT !.cmd = "refresh", !.pc = "rf_read"])
    /\ UNCHANGED <<now, store, authFile, tmpFiles, fn>>

\* readStoredToken, the test of the refresh token, and the refresh request
RfRead(p) ==
    LET l == pr[p] IN
    /\ l.pc = "rf_read"
    /\ IF readStoredTokenFails(store)
       THEN Set(p, Fail(l, "NoStoredToken"))
       ELSE LET l1 == [l EXCEPT !.rd = readStoredToken(store)] IN
            IF ~canRefresh(l1.rd)
            THEN Set(p, Fail(l1, "RefreshUnavailable"))
            ELSE Set(p, [l1 EXCEPT !.pc = "rf_refresh", !.nreq = @ + 1])
    /\ UNCHANGED <<now, store, authFile, tmpFiles, fn>>

\* the reply; a good one is converted and the store is opened for writing
RfResponse(p) ==
    /\ pr[p].pc = "rf_refresh"
    /\ \E r \in RefreshReplies, opened \in BOOLEAN :
         LET l == [pr[p] EXCEPT !.rep = RepOf(r)] IN
         IF refreshThrows(r)
         THEN /\ Set(p, Fail(l, "RefreshFailed"))
              /\ store' = store
         ELSE IF ~opened
         THEN /\ Set(p, Fail(l, "WriteFailed"))
              /\ store' = store
         ELSE /\ Set(p, [l EXCEPT !.pc = "rf_fill",
                                  !.tok = tokenResponseToStored(l.rd.server, r.body)])
              /\ store' = StoreFile(<< >>)
    /\ UNCHANGED <<now, authFile, tmpFiles, fn>>

\* writeTokenToConfig(storedToken.server, newStoredToken) completes;
\* setupJuliaCredentials starts and reads the server
RfFill(p) ==
    LET l == pr[p] IN
    /\ l.pc = "rf_fill"
    /\ store' = StoreFile(configContent(l.rd.server, l.tok))
    /\ Set(p, [l EXCEPT !.pc = "ev_read", !.phase = 1, !.wrote = @ + 1,
                        !.srv = readConfigFile(store')])
    /\ UNCHANGED <<now, authFile, tmpFiles, fn>>

----------------------------------------------------------------------------
\* Specification for isTokenExpired alone

ExpiryTokens ==
    { Jwt(ClaimSeg(e, i, "", "")) : e \in -1..MaxExp, i \in -1..MaxExp }
    \cup { Jwt(OpaqueSeg), Jwt(NullSeg), <<OpaqueSeg, OpaqueSeg>>,
           <<OpaqueSeg, ClaimSeg(MaxExp, 1, "", ""), OpaqueSeg, OpaqueSeg>>,
           << >> }

FnIdle == [tok |-> << >>, expiresIn |-> 0, done |-> FALSE, res |-> FALSE]

InitExpiry ==
    /\ now \in 0..(MaxExp + 1)
    /\ fn \in [tok : ExpiryTokens, expiresIn : -1..MaxExp,
               done : {FALSE}, res : {FALSE}]
    /\ store = NoStoreFile
    /\ authFile = [s \in Servers |-> FAbsent]
    /\ tmpFiles = [x \in TempPaths |-> FAbsent]
    /\ pr = [p \in Procs |-> L0]

ApplyIsTokenExpired ==
    /\ ~fn.done
    /\ \E sub \in 0..MaxSub :
         fn' = [fn EXCEPT !.done = TRUE,
                          !.res = isTokenExpired(fn.tok, fn.expiresIn, DateNow(sub))]
    /\ UNCHANGED <<now, store, authFile, tmpFiles, pr>>

NextExpiry == ApplyIsTokenExpired

SpecExpiry == InitExpiry /\ [][NextExpiry]_vars

----------------------------------------------------------------------------
\* Specification for readStoredToken alone

\* lines a ~/.juliahub file can hold: lines of the known keys, with and
\* without a value, a line of a key the reader does not know, a blank line
ReadLines ==
    { Line("access_token", "", Jwt(ClaimSeg(1, 0, "", "")), 0),
      Line("access_token", "", << >>, 0),
      Line("server", "", HMain, 0),
      Line("name", "old", << >>, 0),
      Line("name", "new", << >>, 0),
      Line("color", "blue", << >>, 0),
      Line("", "", << >>, 0) }

SeqsUpTo(S, n) == UNION { [1..k -> S] : k \in 0..n }

ReadFiles == {NoStoreFile} \cup { StoreFile(ls) : ls \in SeqsUpTo(ReadLines, MaxLines) }

ReadIdle == [done |-> FALSE, failed |-> FALSE, token |-> NoToken]

InitRead ==
    /\ now = 0
    /\ store \in ReadFiles
    /\ fn = ReadIdle
    /\ authFile = [s \in Servers |-> FAbsent]
    /\ tmpFiles = [x \in TempPaths |-> FAbsent]
    /\ pr = [p \in Procs |-> L0]

ApplyReadStoredToken ==
    /\ ~fn.done
    /\ fn' = [done |-> TRUE,
              failed |-> readStoredTokenFails(store),
              token |-> IF readStoredTokenFails(store) THEN NoToken
                        ELSE readStoredToken(store)]
    /\ UNCHANGED <<now, store, authFile, tmpFiles, pr>>

NextRead == ApplyReadStoredToken

SpecRead == InitRead /\ [][NextRead]_vars

----------------------------------------------------------------------------
\* Specification for writeTokenToConfig followed by readStoredToken

\* records to write: every field empty or set, the name also with white space
\* around it, the server of the record not always the server written
WriteTokens ==
    [accessToken : {Jwt(ClaimSeg(MaxExp, 0, "", ""))},
     refreshToken : {"", "r1"},
     tokenType : {"", "bearer"},
     expiresIn : {0, TokenLife},
     idToken : {<< >>, Jwt(ClaimSeg(MaxExp, 0, "new", "new@"))},
     server : {HMain, HCustom},
     name : {"", "new", " new", "new "},
     email : {"", "new@"}]

\* what is in the file before the write
PriorFiles ==
    { NoStoreFile, StoreFile(<< >>),
      StoreFile(<<Line("server", "", HCustom, 0),
                  Line("access_token", "", Jwt(ClaimSeg(1, 0, "", "")), 0),
                  Line("token_type", "bearer", << >>, 0),
                  Line("refresh_token", "r0", << >>, 0),
                  Line("expires_in", "", << >>, 1),
                  Line("id_token", "", Jwt(ClaimSeg(9, 0, "old", "old@")), 0),
                  Line("name", "old", << >>, 0),
                  Line("email", "old@", << >>, 0)>>) }

TripIdle(server, t) ==
    [done |-> FALSE, server |-> server, t |-> t, failed |-> FALSE,
     token |-> NoToken]

InitTrip ==
    /\ now = 0
    /\ store \in PriorFiles
    /\ fn \in { TripIdle(server, t) : server \in {HMain, HCustom}, t \in WriteTokens }
    /\ authFile = [s \in Servers |-> FAbsent]
    /\ tmpFiles = [x \in TempPaths |-> FAbsent]
    /\ pr = [p \in Procs |-> L0]

\* writeTokenToConfig(server, t), then readStoredToken()
ApplyWriteThenRead ==
    /\ ~fn.done
    /\ store' = StoreFile(configContent(fn.server, fn.t))
    /\ fn' = [fn EXCEPT !.done = TRUE,
                        !.failed = readStoredTokenFails(store'),
                        !.token = IF readStoredTokenFails(store') THEN NoToken
                                  ELSE readStoredToken(store')]
    /\ UNCHANGED <<now, authFile, tmpFiles, pr>>

NextTrip == ApplyWriteThenRead

SpecTrip == InitTrip /\ [][NextTrip]_vars

----------------------------------------------------------------------------
\* Specification for the directory of auth.toml alone

\* path.join(homedir, '.julia', 'servers', server), in both clients
serverDir(homedir, server) ==
    [base |-> homedir, sub |-> <<".julia", "servers">>, server |-> server]

\* what the environment of an invocation holds: the home directory and the
\* list of paths of the override variable, empty when the variable is unset
MaxOverride == 2
HomeDirs == {"/home/a", "/home/b"}
OverridePaths == {"/depot/one", "/depot/two", "/home/a/.julia"}
OverrideLists == UNION { [1..k -> OverridePaths] : k \in 0..MaxOverride }

DirIdle(home, override, server) ==
    [done |-> FALSE, home |-> home, override |-> override, server |-> server,
     dir |-> serverDir("", << >>)]

InitDir ==
    /\ now = 0
    /\ store = NoStoreFile
    /\ fn \in { DirIdle(home, override, server) :
                  home \in HomeDirs, override \in OverrideLists, server \in Servers }
    /\ authFile = [s \in Servers |-> FAbsent]
    /\ tmpFiles = [x \in TempPaths |-> FAbsent]
    /\ pr = [p \in Procs |-> L0]

\* createJuliaAuthFile computes the directory it is about to create
ApplyServerDir ==
    /\ ~fn.done
    /\ fn' = [fn EXCEPT !.done = TRUE, !.dir = serverDir(fn.home, fn.server)]
    /\ UNCHANGED <<now, store, authFile, tmpFiles, pr>>

NextDir == ApplyServerDir

SpecDir == InitDir /\ [][NextDir]_vars

----------------------------------------------------------------------------
\* run setup: setupJuliaCredentials and createJuliaAuthFile (TypeScript)

HoldsAuth(p) == {s \in Servers : authFile[s].exists /\ p \in authFile[s].fds}

\* process q changed what a reader of auth.toml of a server in S sees
MarkDirty(q, S) ==
    [p \in Procs |->
        IF p # q /\ pr[p].pc \in CjPcs /\ pr[p].srv \in S
        THEN [pr[p] EXCEPT !.dirty = TRUE] ELSE pr[p]]

\* the write of process p lands in the file its descriptor refers to
WriteTmp(p, content) ==
    [x \in TempPaths |-> Written(tmpFiles[x], p, content)]

WriteAuth(p, content) ==
    [s \in Servers |-> Written(authFile[s], p, content)]

StartSetup(p) ==
    /\ CanStart(p)
    /\ Set(p, [L0 EXCEPT !.pc = "ev_read", !.cmd = "setup", !.phase = 1,
                         !.srv = readConfigFile(store)])
    /\ UNCHANGED <<now, store, authFile, tmpFiles, fn>>

\* createJuliaAuthFile after its ensureValidToken: mkdir, decodeJWT, the
\* content, and the open of the temporary file
CjStart(p) ==
    LET l == pr[p] IN
    /\ l.pc = "cj_start"
    /\ \E sub \in 0..MaxSub, made \in BOOLEAN, opened \in BOOLEAN :
         IF ~made
         THEN Set(p, OnThrow(l, "MkdirFailed")) /\ tmpFiles' = tmpFiles
         ELSE IF ~claimsReadable(l.tok.idToken)
         THEN Set(p, OnThrow(l, "MalformedToken")) /\ tmpFiles' = tmpFiles
         ELSE LET l1 == [l EXCEPT !.tmp = tempFileOf(l.srv, DateNow(sub)),
                                  !.pre = Seen(authFile[l.srv]),
                                  !.dirty = FALSE]
              IN  IF opened
                  THEN /\ Set(p, [l1 EXCEPT !.pc = "cj_fill", !.stage = "opened"])
                       /\ tmpFiles' = [tmpFiles EXCEPT ![l1.tmp] = Truncated(@, p)]
                  ELSE /\ Set(p, [l1 EXCEPT !.pc = "cj_cleanup", !.err = "WriteFailed"])
                       /\ tmpFiles' = tmpFiles
    /\ UNCHANGED <<now, store, authFile, fn>>

CjFill_direct(p) ==
    LET l == pr[p] IN
    /\ l.pc = "cj_fill"
    /\ tmpFiles' = WriteTmp(p, tomlContent(l.srv, l.tok))
    /\ authFile' = [authFile EXCEPT ![l.srv] =
                      [exists |-> TRUE, full |-> TRUE,
                       c |-> tomlContent(l.srv, l.tok),
                       fds |-> IF @.exists THEN @.fds ELSE {}]]
    /\ Set(p, [l EXCEPT !.pc = "cj_rename", !.stage = "written"])
    /\ UNCHANGED <<now, store, fn>>

\* fs.writeFile(tempFile, content) writes and closes
CjFill(p) ==
    LET l == pr[p] IN
    /\ l.pc = "cj_fill"
    /\ \E ok \in BOOLEAN :
         IF ok
         THEN /\ tmpFiles' = WriteTmp(p, tomlContent(l.srv, l.tok))
              /\ authFile' = WriteAuth(p, tomlContent(l.srv, l.tok))
              /\ pr' = [MarkDirty(p, HoldsAuth(p)) EXCEPT
                          ![p] = [l EXCEPT !.pc = "cj_rename", !.stage = "written"]]
         ELSE /\ tmpFiles' = [x \in TempPaths |-> Closed(tmpFiles[x], p)]
              /\ authFile' = [s \in Servers |-> Closed(authFile[s], p)]
              /\ Set(p, [l EXCEPT !.pc = "cj_cleanup", !.err = "WriteFailed"])
    /\ UNCHANGED <<now, store, fn>>

\* fs.rename(tempFile, authFilePath)
CjRename(p) ==
    LET l == pr[p] IN
    /\ l.pc = "cj_rename"
    /\ \E ok \in BOOLEAN :
         IF ok /\ tmpFiles[l.tmp].exists
         THEN /\ authFile' = [authFile EXCEPT ![l.srv] = tmpFiles[l.tmp]]
              /\ tmpFiles' = [tmpFiles EXCEPT ![l.tmp] = FAbsent]
              /\ pr' = [MarkDirty(p, {l.srv}) EXCEPT
                          ![p] = Done([l EXCEPT !.stage = "renamed"])]
         ELSE /\ Set(p, [l EXCEPT !.pc = "cj_cleanup", !.err = "RenameFailed"])
              /\ UNCHANGED <<authFile, tmpFiles>>
    /\ UNCHANGED <<now, store, fn>>

\* the catch block: unlink the temporary file if it exists, rethrow
CjCleanup(p) ==
    LET l == pr[p] IN
    /\ l.pc = "cj_cleanup"
    /\ \E ok \in BOOLEAN :
         IF ok /\ l.tmp # << >> /\ tmpFiles[l.tmp].exists
         THEN /\ tmpFiles' = [tmpFiles EXCEPT ![l.tmp] = FAbsent]
              /\ Set(p, OnThrow([l EXCEPT !.cleaned = TRUE], l.err))
         ELSE /\ tmpFiles' = tmpFiles
              /\ Set(p, OnThrow(l, l.err))
    /\ UNCHANGED <<now, store, authFile, fn>>

----------------------------------------------------------------------------
\* jh run of the Go client: runJulia and createJuliaAuthFile (Go)

\* ensureValidToken of the Go client returns the stored token when it is
\* not expired
GoEnsureValidTokenOk(file, ms) ==
    /\ ~readStoredTokenFails(file)
    /\ ~isTokenExpired(readStoredToken(file).accessToken,
                       readStoredToken(file).expiresIn, ms)

StartGoRun(p) ==
    /\ CanStart(p)
    /\ \E sub \in 0..MaxSub :
         /\ GoEnsureValidTokenOk(store, DateNow(sub))
         /\ Set(p, [L0 EXCEPT !.pc = "go_create", !.cmd = "gorun",
                              !.srv = readConfigFile(store),
                              !.tok = readStoredToken(store)])
    /\ UNCHANGED <<now, store, authFile, tmpFiles, fn>>

\* MkdirAll, decodeJWT, os.Create(authFilePath)
GoCreate(p) ==
    LET l == pr[p] IN
    /\ l.pc = "go_create"
    /\ \E made \in BOOLEAN, created \in BOOLEAN :
         IF ~made
         THEN Set(p, Fail(l, "MkdirFailed")) /\ authFile' = authFile
         ELSE IF ~claimsReadable(l.tok.idToken)
         THEN Set(p, Fail(l, "MalformedToken")) /\ authFile' = authFile
         ELSE IF ~created
         THEN Set(p, Fail(l, "CreateFailed")) /\ authFile' = authFile
         ELSE /\ authFile' = [authFile EXCEPT ![l.srv] = Truncated(@, p)]
              /\ pr' = [MarkDirty(p, {l.srv}) EXCEPT
                          ![p] = [l EXCEPT !.pc = "go_write"]]
    /\ UNCHANGED <<now, store, tmpFiles, fn>>

\* file.WriteString(content) and the deferred file.Close()
GoWrite(p) ==
    LET l == pr[p] IN
    /\ l.pc = "go_write"
    /\ \E ok \in BOOLEAN :
         IF ok
         THEN /\ authFile' = WriteAuth(p, tomlContent(l.srv, l.tok))
              /\ tmpFiles' = WriteTmp(p, tomlContent(l.srv, l.tok))
              /\ pr' = [MarkDirty(p, HoldsAuth(p)) EXCEPT ![p] = Done(l)]
         ELSE /\ authFile' = [s \in Servers |-> Closed(authFile[s], p)]
              /\ tmpFiles' = [x \in TempPaths |-> Closed(tmpFiles[x], p)]
              /\ Set(p, Fail(l, "WriteFailed"))
    /\ UNCHANGED <<now, store, fn>>

----------------------------------------------------------------------------
\* Environment

\* the process is killed: its descriptors are closed, nothing else happens
Kill(p) ==
    /\ pr[p].pc \notin Terminal
    /\ Set(p, Killed(pr[p]))
    /\ authFile' = [s \in Servers |-> Closed(authFile[s], p)]
    /\ tmpFiles' = [x \in TempPaths |-> Closed(tmpFiles[x], p)]
    /\ UNCHANGED <<now, store, fn>>

Tick ==
    /\ now < MaxNow
    /\ now' = now + 1
    /\ UNCHANGED <<store, authFile, tmpFiles, pr, fn>>

AccessOld == Jwt(ClaimSeg(1, 0, "", ""))

StoredOld(server, refresh) ==
    [accessToken |-> AccessOld, refreshToken |-> refresh, tokenType |-> "bearer",
     expiresIn |-> 1, idToken |-> IdOld, server |-> server,
     name |-> "old", email |-> "old@"]

\* the store before the first command: no login yet, a write that was cut
\* short, or the record a login to juliahub.com or to the custom server wrote
InitStores ==
    {NoStoreFile, StoreFile(<< >>)}
    \cup { StoreFile(configContent(s, StoredOld(s, r))) :
             s \in {HMain, HCustom}, r \in {"", "r0"} }

Init ==
    /\ now = 0
    /\ store \in InitStores
    /\ authFile = [s \in Servers |-> FAbsent]
    /\ tmpFiles = [x \in TempPaths |-> FAbsent]
    /\ pr = [p \in Procs |-> L0]
    /\ fn = FnIdle

\* one invocation at a time
Next ==
    \/ Tick
    \/ \E p \in {1} :
         \/ StartApi(p)
         \/ EvRead(p)
         \/ EvResponse(p)
         \/ EvFill(p)
         \/ \E h \in GetHosts : StartGet(p, h)
         \/ GgRead(p)
         \/ DfRequest(p)
         \/ DfDisplay(p)
         \/ DfPoll(p)
         \/ GgFill(p)
         \/ GgEmit(p)
         \/ \E verb \in HelperVerbs, h \in GetHosts : StartStoreErase(p, verb, h)
         \/ \E server \in LoginServers : StartLogin(p, server)
         \/ LgFill(p)
         \/ StartRefresh(p)
         \/ RfRead(p)
         \/ RfResponse(p)
         \/ RfFill(p)
         \/ StartSetup(p)
         \/ CjStart(p)
         \/ CjFill(p)
         \/ CjRename(p)
         \/ CjCleanup(p)
         \/ StartGoRun(p)
         \/ GoCreate(p)
         \/ GoWrite(p)
         \/ Kill(p)

Spec == Init /\ [][Next]_vars

\* two overlapping invocations of the commands that write auth.toml
NextConc ==
    \/ Tick
    \/ \E p \in Procs :
         \/ EvRead(p)
         \/ EvResponse(p)
         \/ EvFill(p)
         \/ StartSetup(p)
         \/ CjStart(p)
         \/ CjFill(p)
         \/ CjRename(p)
         \/ CjCleanup(p)
         \/ StartGoRun(p)
         \/ GoCreate(p)
         \/ GoWrite(p)
         \/ Kill(p)

SpecConc == Init /\ [][NextConc]_vars

\* a projector invocation overlapping with a git-credential get
NextMix ==
    \/ Tick
    \/ \E p \in {1} :
         \/ StartSetup(p)
         \/ CjStart(p)
         \/ CjFill(p)
         \/ CjRename(p)
         \/ CjCleanup(p)
    \/ \E p \in {2} :
         \/ \E h \in GetHosts : StartGet(p, h)
         \/ GgRead(p)
         \/ DfRequest(p)
         \/ DfDisplay(p)
         \/ DfPoll(p)
         \/ GgFill(p)
         \/ GgEmit(p)
    \/ \E p \in Procs :
         \/ EvRead(p)
         \/ EvResponse(p)
         \/ EvFill(p)

SpecMix == Init /\ [][NextMix]_vars

\* git asks the helper again for the host of a get that has just
\* authenticated and stored its token
StartGetAgain(q, p) ==
    /\ p # q
    /\ pr[p].cmd = "get" /\ pr[p].pc = "done" /\ pr[p].wrote > 0
    /\ StartGet(q, pr[p].host)

\* a get, then a second get for the same host, nothing else in between
NextAgain ==
    \/ \E p \in {1} : \E h \in GetHosts : StartGet(p, h)
    \/ \E q \in {2} : StartGetAgain(q, 1)
    \/ \E p \in Procs :
         \/ GgRead(p)
         \/ EvRead(p)
         \/ DfRequest(p)
         \/ DfDisplay(p)
         \/ DfPoll(p)
         \/ GgFill(p)
         \/ GgEmit(p)

SpecAgain == Init /\ [][NextAgain]_vars

----------------------------------------------------------------------------
\* Properties

\* the expiry rule in whole seconds
ExpiredAt(accessToken, expiresIn, t) ==
    IF ~claimsReadable(accessToken) THEN TRUE
    ELSE IF accessToken[2].exp > 0 THEN t >= accessToken[2].exp
    ELSE IF accessToken[2].iat > 0 /\ expiresIn > 0
         THEN t >= accessToken[2].iat + expiresIn
         ELSE TRUE

StoreReadable == ~readStoredTokenFails(store)
Stored == readStoredToken(store)
StoredExpired == ExpiredAt(Stored.accessToken, Stored.expiresIn, now)

\* process p takes a step that is not its being killed
Moves(p) == pr'[p] # pr[p] /\ pr'[p].pc # "killed"

\* C1: with an expired access token and a refresh token in the store, one
\* call of ensureValidToken sends exactly one refresh request, and the token
\* it returns and the record it persists carry the server that was read.
EnsureRefreshesOnce ==
    [][\A p \in Procs :
        LET l == pr[p]
            l2 == pr'[p]
        IN  /\ (l.pc = "ev_read" /\ Moves(p) /\ StoreReadable /\ StoredExpired
                  /\ Stored.refreshToken # "")
                => (l2.pc = "ev_refresh" /\ l2.evReq = 1
                      /\ l2.nreq = l.nreq + 1 /\ l2.rd = Stored)
            /\ (l.pc = "ev_refresh" /\ Moves(p))
                => (l2.evReq = 1 /\ l2.nreq = l.nreq
                      /\ (l2.pc = "ev_fill" => l2.tok.server = l.rd.server))
            /\ (l.pc = "ev_fill" /\ Moves(p))
                => (l2.evRes = "refreshed" /\ l2.evReq = 1 /\ l2.nreq = l.nreq
                      /\ l2.tok.server = l.rd.server
                      /\ ~readStoredTokenFails(store')
                      /\ readStoredToken(store') = l2.tok)]_vars

EnsureRefreshesOnceWitness ==
    \E p \in Procs :
        /\ pr[p].cmd = "api" /\ pr[p].pc = "done"
        /\ pr[p].evRes = "refreshed" /\ pr[p].evReq = 1 /\ pr[p].nreq = 1
        /\ pr[p].tok.server = HCustom
        /\ StoreReadable /\ Stored = pr[p].tok

\* C2: with an expired access token and no refresh token in the store,
\* ensureValidToken fails with RefreshUnavailable, sends no request and
\* leaves the store as it is.
EnsureRefreshUnavailable ==
    [][\A p \in Procs :
        LET l == pr[p]
            l2 == pr'[p]
        IN  (l.pc = "ev_read" /\ Moves(p) /\ StoreReadable /\ StoredExpired
               /\ Stored.refreshToken = "")
             => (l2.evRes = "RefreshUnavailable" /\ l2.evReq = 0
                   /\ l2.nreq = l.nreq /\ l2.wrote = l.wrote /\ store' = store
                   /\ (l.cmd # "get" =>
                         (l2.pc = "failed" /\ l2.err = "RefreshUnavailable")))]_vars

EnsureRefreshUnavailableWitness ==
    \E p \in Procs :
        /\ pr[p].pc = "failed" /\ pr[p].err = "RefreshUnavailable"
        /\ pr[p].nreq = 0 /\ pr[p].wrote = 0
        /\ StoreReadable /\ StoredExpired /\ Stored.refreshToken = ""

\* C3: with an unexpired access token in the store, ensureValidToken returns
\* the record as read, sends no request, and writes neither the store nor
\* any auth.toml or temporary file.
EnsureFastPath ==
    [][\A p \in Procs :
        LET l == pr[p]
            l2 == pr'[p]
        IN  (l.pc = "ev_read" /\ Moves(p) /\ StoreReadable /\ ~StoredExpired)
             => (l2.evRes = "fast" /\ l2.tok = Stored /\ l2.evReq = 0
                   /\ l2.nreq = l.nreq /\ l2.wrote = l.wrote
                   /\ store' = store /\ authFile' = authFile
                   /\ tmpFiles' = tmpFiles)]_vars

EnsureFastPathWitness ==
    \E p \in Procs :
        /\ pr[p].cmd = "api" /\ pr[p].pc = "done" /\ pr[p].evRes = "fast"
        /\ pr[p].nreq = 0 /\ pr[p].wrote = 0
        /\ StoreReadable /\ pr[p].tok = Stored /\ ~StoredExpired


\* C4: for a token that decodes to claims, exp > 0 decides alone (expired
\* exactly when now >= exp); only when exp is not positive, and iat > 0 and
\* expiresIn > 0, the token is expired exactly when now >= iat + expiresIn.
ExpiryFollowsClaims ==
    (fn.done /\ claimsReadable(fn.tok)) =>
        LET c == fn.tok[2] IN
        /\ c.exp > 0 => (fn.res <=> now >= c.exp)
        /\ (c.exp <= 0 /\ c.iat > 0 /\ fn.expiresIn > 0) =>
               (fn.res <=> now >= c.iat + fn.expiresIn)

\* exp > 0 and not yet reached, while iat + expiresIn has already passed:
\* the fallback would say expired, the answer is not expired
ExpiryFollowsClaimsWitness ==
    /\ fn.done
    /\ claimsReadable(fn.tok)
    /\ fn.tok[2].exp > now
    /\ fn.tok[2].iat > 0
    /\ fn.expiresIn > 0
    /\ fn.tok[2].iat + fn.expiresIn <= now
    /\ ~fn.res

\* C5: a token that does not decode, or whose claims give neither exp > 0
\* nor (iat > 0 and expiresIn > 0), is reported expired.
ExpiryFailsSafe ==
    fn.done =>
        /\ ~decodeOk(fn.tok) => fn.res
        /\ (Len(fn.tok) # 3) => fn.res
        /\ (claimsReadable(fn.tok)
              /\ ~(fn.tok[2].exp > 0)
              /\ ~(fn.tok[2].iat > 0 /\ fn.expiresIn > 0)) => fn.res

ExpiryFailsSafeWitness ==
    /\ fn.done
    /\ fn.res
    /\ Len(fn.tok) = 3
    /\ fn.tok[2].json = "invalid"

\* C6: a reader of auth.toml sees no file or a completely written one, on
\* every path that writes it.
AuthFileNeverTorn ==
    \A s \in Servers : authFile[s].exists => authFile[s].full

\* C7: when createJuliaAuthFile of the TypeScript service stops without its
\* rename (killed, or a write or rename error) once the temporary file was
\* opened, auth.toml is what it was when the call began, unless another
\* process replaced it meanwhile; on an error the error is rethrown and the
\* unlink, when it succeeds, leaves no temporary file.
ProjectorStopLeavesTarget ==
    [][\A p \in Procs :
        LET l == pr[p]
            l2 == pr'[p]
        IN  (l.cmd = "setup" /\ l.pc \in CjPcs /\ l.tmp # << >>
               /\ l2.pc \in {"killed", "failed"})
             => /\ ~l2.dirty => Seen(authFile'[l.srv]) = l.pre
                /\ l2.pc = "failed" =>
                     /\ l2.exit = "fail"
                     /\ l2.err = l.err
                     /\ l.err \in {"WriteFailed", "RenameFailed"}
                     /\ l2.cleaned => ~tmpFiles'[l.tmp].exists]_vars

\* killed between the write of the temporary file and the rename, with an
\* auth.toml of an earlier setup in place that differs from the new content
ProjectorStopLeavesTargetWitness ==
    \E p \in Procs :
        /\ pr[p].cmd = "setup" /\ pr[p].pc = "killed"
        /\ pr[p].stage = "written" /\ ~pr[p].dirty
        /\ pr[p].pre.exists /\ pr[p].pre.full
        /\ Seen(authFile[pr[p].srv]) = pr[p].pre
        /\ tmpFiles[pr[p].tmp].exists /\ tmpFiles[pr[p].tmp].full
        /\ tmpFiles[pr[p].tmp].c # pr[p].pre.c

\* the domain test of the helper as the code computes it
NotOwnHost(h) ==
    h = << >> \/ (~EndsWith(h, HMain) /\ ~Includes(h, "juliahub"))

\* C8: get for a host that fails the domain test prints nothing, exits 0,
\* sends no request, starts no device flow and leaves the store alone.
GetForeignHostSilent ==
    [][\A p \in Procs :
        LET l == pr[p]
            l2 == pr'[p]
        IN  (l.pc = "idle" /\ l2.cmd = "get" /\ NotOwnHost(l2.host))
             => (l2.pc = "done" /\ l2.exit = "ok" /\ l2.out = << >>
                   /\ l2.nreq = 0 /\ l2.nflow = 0 /\ l2.wrote = 0
                   /\ store' = store)]_vars

GetForeignHostSilentWitness ==
    \E p \in Procs :
        /\ pr[p].cmd = "get" /\ pr[p].host = HOther
        /\ pr[p].pc = "done" /\ pr[p].exit = "ok" /\ pr[p].out = << >>
        /\ pr[p].nreq = 0 /\ pr[p].nflow = 0

\* C9: get for the host the stored record names, with an unexpired access
\* token, prints username=oauth2 and password=<stored idToken>, sends no
\* request, starts no device flow and leaves the store alone.  Stated for
\* each step of the command over the store that step finds.
GetMatchingHostEmits ==
    [][\A p \in Procs :
        LET l == pr[p]
            l2 == pr'[p]
            match(h) == StoreReadable /\ Stored.server = h /\ ~StoredExpired
        IN  /\ (l.pc = "idle" /\ l2.cmd = "get" /\ match(l2.host))
                => l2.pc = "gg_read"
            /\ (l.pc = "gg_read" /\ Moves(p) /\ match(l.host))
                => (l2.pc = "ev_read" /\ l2.nreq = 0 /\ l2.nflow = 0)
            /\ (l.cmd = "get" /\ l.pc = "ev_read" /\ Moves(p) /\ match(l.host))
                => (l2.pc = "done" /\ l2.exit = "ok"
                      /\ l2.out = CredLines(Stored.idToken)
                      /\ l2.nreq = 0 /\ l2.nflow = 0 /\ l2.wrote = 0)
            /\ (l.cmd = "get" /\ l.pc \in {"idle", "gg_read", "ev_read"}
                  /\ Moves(p) /\ match(l2.host))
                => store' = store]_vars

\* C10: get for an own-domain host other than the stored server runs the
\* device flow for the normalized host; on success the store holds exactly
\* the new record, with the normalized host as server, before any credential
\* line is printed, and the lines printed are username=oauth2 and
\* password=<new id_token>.
GetReauthPersistsFirst ==
    [][\A p \in Procs :
        LET l == pr[p]
            l2 == pr'[p]
        IN  /\ (l.pc = "gg_read" /\ Moves(p) /\ StoreReadable
                  /\ Stored.server # l.host)
                => (l2.pc = "df_request" /\ ~l2.inCatch
                      /\ l2.srv = normalizeServer(l.host) /\ l2.out = << >>)
            /\ (l.cmd = "get" /\ l.pc = "df_request" /\ Moves(p))
                => (l2.nflow = l.nflow + 1 /\ l2.srv = normalizeServer(l.host)
                      /\ l2.out = << >>)
            /\ (l.cmd = "get" /\ l.pc = "df_poll" /\ Moves(p))
                => (l2.out = << >>
                      /\ (l2.pc = "gg_fill"
                            => l2.tok.server = normalizeServer(l.host)))
            /\ (l.pc = "gg_fill" /\ Moves(p))
                => (l2.pc = "gg_emit" /\ l2.out = << >> /\ l2.wrote = l.wrote + 1
                      /\ store' = StoreFile(configContent(normalizeServer(l.host),
                                                          l.tok))
                      /\ ~readStoredTokenFails(store')
                      /\ readStoredToken(store') = l.tok
                      /\ readConfigFile(store') = normalizeServer(l.host))
            /\ (l.cmd = "get" /\ l.nflow > 0 /\ l.out = << >> /\ l2.out # << >>)
                => (l.pc = "gg_emit" /\ l.wrote = 1
                      /\ l2.out = CredLines(l.tok.idToken))]_vars

\* the stored server was juliahub.com; the helper was asked for myjuliahub
GetReauthPersistsFirstWitness ==
    \E p \in Procs :
        /\ pr[p].cmd = "get" /\ pr[p].host = HBrand /\ pr[p].pc = "done"
        /\ pr[p].nflow = 1 /\ pr[p].wrote = 1
        /\ pr[p].out = CredLines(IdNew)
        /\ StoreReadable /\ Stored = pr[p].tok
        /\ Stored.server = normalizeServer(HBrand)
        /\ Stored.name = "new"

\* C11: git-credential store and git-credential erase print nothing, exit 0,
\* send no request, start no device flow, and leave the token store, every
\* auth.toml and every temporary file as they are, whatever the input.
StoreEraseNoOp ==
    [][\A p \in Procs :
        LET l == pr[p]
            l2 == pr'[p]
        IN  (l.pc = "idle" /\ l2.cmd \in HelperVerbs)
             => (l2.pc = "done" /\ l2.exit = "ok" /\ l2.out = << >>
                   /\ l2.nreq = 0 /\ l2.nflow = 0 /\ l2.wrote = 0
                   /\ store' = store /\ authFile' = authFile
                   /\ tmpFiles' = tmpFiles)]_vars

\* store was called for juliahub.com while a token for it is in the store
StoreEraseNoOpWitness ==
    \E p \in Procs :
        /\ pr[p].cmd = "store" /\ pr[p].host = HMain /\ pr[p].pc = "done"
        /\ pr[p].out = << >> /\ pr[p].exit = "ok"
        /\ StoreReadable /\ Stored.server = HMain /\ Stored.idToken # << >>

\* the device flow of process p has left its poll loop
LeftPolling(l2) == l2.pc \notin {"df_poll"}

PollWithoutRefreshToken ==
    [][\A p \in Procs :
        LET l == pr[p]
            l2 == pr'[p]
            r == l2.rep
        IN  /\ (l.pc = "df_poll" /\ Moves(p) /\ r.parsed /\ r.error = ""
                  /\ r.token /\ r.refresh = "")
                => (l2.dfRes = "authorized" /\ l2.warn
                      /\ (l2.pc \in {"gg_fill", "lg_fill"}
                            => (l2.tok.refreshToken = "" /\ l2.err = ""
                                  /\ l2.tok.accessToken # << >>)))
            /\ (l.pc \in {"gg_fill", "lg_fill"} /\ Moves(p) /\ l.rep.refresh = "")
                => (l.warn /\ ~readStoredTokenFails(store')
                      /\ readStoredToken(store').refreshToken = ""
                      /\ l2.pc \notin {"failed"})]_vars

\* a login that ended well with a record that has no refresh token
PollWithoutRefreshTokenWitness ==
    \E p \in Procs :
        /\ pr[p].cmd = "login" /\ pr[p].pc = "done" /\ pr[p].exit = "ok"
        /\ pr[p].dfRes = "authorized" /\ pr[p].warn
        /\ pr[p].tok.refreshToken = ""
        /\ StoreReadable /\ Stored.refreshToken = ""
        /\ Stored.accessToken = pr[p].tok.accessToken

\* C14: once auth login or auth refresh has persisted the new token and runs
\* setupJuliaCredentials, no failure in there fails the command: it never
\* exits non-zero, it ends with exit 0, the store is touched only by a
\* refresh inside ensureValidToken, and at the end the store holds the token
\* the command has.
ProjectorFailureIsLogged ==
    [][\A p \in Procs :
        LET l == pr[p]
            l2 == pr'[p]
        IN  (l.cmd \in {"login", "refresh"} /\ l.phase > 0 /\ Moves(p))
             => /\ l2.pc # "failed"
                /\ l2.exit # "fail"
                /\ l.pc \notin {"ev_refresh", "ev_fill"} => store' = store
                /\ l2.pc = "done"
                    => (l2.exit = "ok" /\ ~readStoredTokenFails(store')
                          /\ readStoredToken(store') = l2.tok)]_vars

\* a login whose rename of the temporary file failed
ProjectorFailureIsLoggedWitness ==
    \E p \in Procs :
        /\ pr[p].cmd = "login" /\ pr[p].pc = "done" /\ pr[p].exit = "ok"
        /\ pr[p].err = "RenameFailed" /\ pr[p].stage = "written"
        /\ pr[p].dfRes = "authorized" /\ pr[p].wrote = 1
        /\ StoreReadable /\ Stored = pr[p].tok /\ Stored.server = pr[p].srv
        /\ ~authFile[pr[p].srv].exists

\* C15: a refresh, inside ensureValidToken or by auth refresh, writes auth.toml
\* of a server only if the file was there before, and run setup that ends
\* well leaves the file written with the content of the current token.
RefreshUpdatesOnlyExisting ==
    [][\A p \in Procs :
        LET l == pr[p]
            l2 == pr'[p]
        IN  /\ (l.cmd \in {"refresh", "api", "get"} /\ Moves(p))
                => \A s \in Servers : authFile'[s].exists => authFile[s].exists
            /\ (l.cmd = "setup" /\ Moves(p) /\ l2.pc = "done")
                => (authFile'[l.srv].exists /\ authFile'[l.srv].full
                      /\ authFile'[l.srv].c = tomlContent(l.srv, l.tok))]_vars

\* the tokens a reader finds in an auth.toml
TomlTokens(f) == <<f.c.access_token, f.c.refresh_token, f.c.id_token>>

\* C16: when ensureValidToken returns after a refresh for a server whose
\* auth.toml exists, that file holds the refreshed access, refresh and ID
\* tokens.
RefreshResyncsAuthFile ==
    [][\A p \in Procs :
        LET l == pr[p]
            l2 == pr'[p]
        IN  (l.pc = "ev_fill" /\ Moves(p) /\ l.rd.server \in Servers
               /\ authFile[l.rd.server].exists /\ authFile[l.rd.server].full)
             => TomlTokens(authFile'[l.rd.server])
                  = <<l2.tok.accessToken, l2.tok.refreshToken, l2.tok.idToken>>]_vars

\* C17: a refresh exchange that succeeded changes the name and the email of
\* the record only to claims of the new ID token; where the token is absent,
\* does not decode or lacks the claim, the value read from the store stays.
RefreshKeepsIdentity ==
    [][\A p \in Procs :
        LET l == pr[p]
            l2 == pr'[p]
            id == l2.tok.idToken
            hasName == claimsReadable(id) /\ decodeJWT(id).name # ""
            hasEmail == claimsReadable(id) /\ decodeJWT(id).email # ""
        IN  /\ (l.pc \in {"ev_refresh", "rf_refresh"}
                  /\ l2.pc \in {"ev_fill", "rf_fill"})
                => /\ l2.tok.name = IF hasName THEN decodeJWT(id).name
                                    ELSE l.rd.name
                   /\ l2.tok.email = IF hasEmail THEN decodeJWT(id).email
                                     ELSE l.rd.email
            /\ (l.pc \in {"ev_fill", "rf_fill"} /\ Moves(p))
                => /\ readStoredToken(store').name = l.tok.name
                   /\ readStoredToken(store').email = l.tok.email]_vars

\* C18: in git-credential get, a device flow started for a host other than
\* the stored server that ends in DeviceCodeRequestFailed or
\* AuthorizationFailed ends the command: non-zero exit, no output, the store
\* as it was, and no second device flow.
FlowFailureEndsGet ==
    [][\A p \in Procs :
        LET l == pr[p]
            l2 == pr'[p]
        IN  (l.cmd = "get" /\ l.pc \in {"df_request", "df_poll"} /\ ~l.inCatch
               /\ Moves(p)
               /\ l2.dfRes \in {"DeviceCodeRequestFailed", "AuthorizationFailed"})
             => (l2.pc = "failed" /\ l2.exit = "fail" /\ l2.out = << >>
                   /\ l2.nflow = 1 /\ store' = store)]_vars

\* C19: when the refresh exchange answers with a non-2xx status or with an
\* error field, ensureValidToken fails with RefreshFailed and the store,
\* every auth.toml and every temporary file are as before.
RefreshFailureLeavesState ==
    [][\A p \in Procs :
        LET l == pr[p]
            l2 == pr'[p]
        IN  (l.pc = "ev_refresh" /\ Moves(p)
               /\ (~l2.rep.ok \/ l2.rep.error # ""))
             => (l2.evRes = "RefreshFailed" /\ l2.pc # "ev_fill"
                   /\ l2.tok = l.tok /\ l2.wrote = l.wrote
                   /\ store' = store /\ authFile' = authFile
                   /\ tmpFiles' = tmpFiles
                   /\ ((l.cmd # "get" /\ ~InProjectorTry(l))
                         => (l2.pc = "failed" /\ l2.exit = "fail"
                               /\ l2.err = "RefreshFailed")))]_vars

\* a non-2xx reply whose body carried tokens: nothing of it was kept
RefreshFailureLeavesStateWitness ==
    \E p \in Procs :
        /\ pr[p].cmd = "api" /\ pr[p].pc = "failed"
        /\ pr[p].err = "RefreshFailed" /\ pr[p].evRes = "RefreshFailed"
        /\ pr[p].rep.seen /\ ~pr[p].rep.ok /\ pr[p].rep.token
        /\ pr[p].wrote = 0
        /\ StoreReadable /\ Stored.accessToken = AccessOld
        /\ Stored.refreshToken = "r0" /\ StoredExpired

\* the lines of the keys readStoredToken knows
KnownKeys ==
    {"server", "access_token", "refresh_token", "token_type", "id_token",
     "expires_in", "name", "email"}
IsKnownLine(x) == x.key \in KnownKeys
KnownLines(ls) == SelectSeq(ls, IsKnownLine)

\* C20 as stated: the read fails exactly when the file is absent or has no
\* access_token line with a value, and unknown and blank lines change neither
\* the outcome nor the record.
ReadFailsIffNoTokenLine ==
    fn.done =>
        /\ fn.failed <=>
             (~store.exists
                \/ ~\E i \in 1..Len(store.lines) :
                       /\ store.lines[i].key = "access_token"
                       /\ store.lines[i].t # << >>)
        /\ fn.failed <=> readStoredTokenFails(StoreFile(KnownLines(store.lines)))
                           \/ ~store.exists
        /\ ~fn.failed =>
             fn.token = readStoredToken(StoreFile(KnownLines(store.lines)))

\* C20: the read fails exactly when the file is absent, has no access_token
\* line, or its last access_token line has no value; otherwise it succeeds
\* and every field is the value of the last line of its key.  Lines of
\* unknown keys and blank lines change neither the outcome nor the record.
ReadKeepsLastLine ==
    fn.done =>
        LET ls == store.lines
            at == {i \in 1..Len(ls) : ls[i].key = "access_token"}
            nm == {i \in 1..Len(ls) : ls[i].key = "name"}
        IN  /\ fn.failed <=>
                 (~store.exists \/ at = {}
                    \/ \E i \in at : (\A j \in at : j <= i) /\ ls[i].t = << >>)
            /\ fn.failed <=> readStoredTokenFails(StoreFile(KnownLines(ls)))
                               \/ ~store.exists
            /\ ~fn.failed =>
                 /\ fn.token = readStoredToken(StoreFile(KnownLines(ls)))
                 /\ fn.token.accessToken # << >>
                 /\ \A i \in nm : (\A j \in nm : j <= i) => fn.token.name = ls[i].s
                 /\ nm = {} => fn.token.name = ""

\* an access_token line with a value, then one without, then an unknown key
ReadKeepsLastLineWitness ==
    /\ fn.done /\ fn.failed /\ store.exists
    /\ Len(store.lines) = 3
    /\ store.lines[1].key = "access_token" /\ store.lines[1].t # << >>
    /\ store.lines[2].key = "access_token" /\ store.lines[2].t = << >>
    /\ store.lines[3].key = "color"

NoTrailingSpace(t) ==
    \A v \in {t.refreshToken, t.tokenType, t.name, t.email} :
        v \notin {"new ", " "}

GetOwnsConfiguredServer ==
    [][\A p \in Procs :
        LET l == pr[p]
            l2 == pr'[p]
            own == /\ l2.host # << >>
                   /\ \/ EndsWith(l2.host, HMain)
                      \/ Includes(l2.host, "juliahub")
                      \/ (store.exists /\ LinesWith(store.lines, "server") # {}
                            /\ l2.host = readConfigFile(store))
        IN  (l.pc = "idle" /\ l2.cmd = "get")
             => (own <=> l2.pc = "gg_read")]_vars

\* C23: a write of the token store is atomic for a reader: while a process
\* writes the store, a record that could be read before can be read after
\* every step, and it is the record from before the write or the one written.
StoreWriteIsAtomic ==
    [][\A p \in Procs :
        (Moves(p) /\ ~readStoredTokenFails(store))
          => /\ ~readStoredTokenFails(store')
             /\ readStoredToken(store') \in {readStoredToken(store), pr'[p].tok}]_vars

\* C26: every poll response other than error authorization_pending, a body
\* with neither error nor access_token included, ends the poll loop.
PollEndsOnNonPending ==
    [][\A p \in Procs :
        LET l == pr[p]
            l2 == pr'[p]
        IN  (l.pc = "df_poll" /\ Moves(p)
               /\ ~(l2.rep.parsed /\ l2.rep.error = "authorization_pending"))
             => (LeftPolling(l2)
                   /\ l2.dfRes \in {"authorized", "AuthorizationFailed",
                                    "InvalidPollBody"})]_vars

\* C29: a refresh that succeeded for a record with a refresh token persists
\* a record with a refresh token, also when the response has none.
RefreshKeepsRefreshToken ==
    [][\A p \in Procs :
        LET l == pr[p]
        IN  (l.pc \in {"ev_fill", "rf_fill"} /\ Moves(p) /\ l.rd.refreshToken # "")
             => (~readStoredTokenFails(store')
                   /\ readStoredToken(store').refreshToken # "")]_vars

\* C27: in a device flow no poll is sent unless the device-code request was
\* answered 2xx, the verification URI was displayed and the warm-up delay has
\* passed; every poll comes after one sleep of its own; and a non-2xx answer
\* to the device-code request ends the flow with DeviceCodeRequestFailed
\* without any poll.
FlowStepsInOrder ==
    [][\A p \in Procs :
        LET l == pr[p]
            l2 == pr'[p]
        IN  /\ (l.pc = "df_request" /\ Moves(p)
                  /\ l2.dfRes = "DeviceCodeRequestFailed")
                => (l2.pc \notin {"df_display", "df_poll"} /\ l2.polls = 0
                      /\ l2.nreq = l.nreq + 1
                      /\ (l.cmd = "login"
                            => (l2.pc = "failed"
                                  /\ l2.err = "DeviceCodeRequestFailed")))
            /\ (l2.pc = "df_display" /\ l.pc # "df_display")
                => (l.pc = "df_request" /\ l2.dfRes = "requested"
                      /\ l2.polls = 0)
            /\ (l2.pc = "df_poll" /\ l.pc # "df_poll")
                => (l.pc = "df_display" /\ l.dfRes = "requested"
                      /\ l2.dfRes = "waiting" /\ l2.polls = 0
                      /\ l2.nreq = l.nreq)
            /\ (l.pc = "df_poll" /\ Moves(p))
                => (l.dfRes \in {"waiting", "pending", "empty"}
                      /\ l.sleeps = l.polls
                      /\ l2.nreq = l.nreq + 1
                      /\ (l2.pc = "df_poll"
                            => (l2.polls = l.polls + 1 /\ l2.sleeps = l2.polls)))
            /\ (l.pc # "df_poll" /\ l2.polls # l.polls) => l2.polls = 0]_vars

\* a login that has polled twice and is still waiting
FlowStepsInOrderWitness ==
    \E p \in Procs :
        /\ pr[p].cmd = "login" /\ pr[p].pc = "df_poll"
        /\ pr[p].dfRes = "pending"
        /\ pr[p].polls = 2 /\ pr[p].sleeps = 2 /\ pr[p].nreq = 3

\* C24: two projector invocations that run at the same time never hold the
\* same temporary path, the two that read the same clock value included.
TempFileIsOwn ==
    \A p, q \in Procs :
        (p # q /\ pr[p].pc \in {"cj_fill", "cj_rename"}
               /\ pr[q].pc \in {"cj_fill", "cj_rename"})
          => pr[p].tmp # pr[q].tmp

\* C25: the directory of auth.toml is under the first path of the override
\* when the override is set, and under the home directory only when it is
\* not.
DirFollowsOverride ==
    fn.done
      => fn.dir = IF fn.override # << >>
                  THEN [base |-> fn.override[1], sub |-> <<"servers">>,
                        server |-> fn.server]
                  ELSE [base |-> fn.home, sub |-> <<".julia", "servers">>,
                        server |-> fn.server]

\* C28: whenever the projector writes the credential file of server S, the
\* tokens it writes are those of a stored record whose server is S and the
\* refresh_url is the token endpoint of the auth host of S, also when another
\* process rewrites the token store between the projector's read of the
\* configured server and its read of the token.
ProjectionMatchesServer ==
    [][\A p \in Procs :
        LET l == pr[p]
        IN  (l.pc = "cj_fill" /\ Moves(p) /\ pr'[p].pc = "cj_rename")
             => (/\ l.tok.server = l.srv
                 /\ tomlContent(l.srv, l.tok).refresh_url
                      = authServerOf(l.tok.server))]_vars

\* C30: after a get for host H has authenticated and stored its token, the
\* next get for H finds the stored server equal to H and answers from the
\* store, with no second device flow, for every host the helper accepts.
GetAgainReusesToken ==
    [][\A p, q \in Procs :
        (/\ p # q
         /\ pr[p].cmd = "get" /\ pr[p].pc = "done" /\ pr[p].wrote > 0
         /\ pr[q].cmd = "get" /\ pr[q].host = pr[p].host
         /\ pr[q].pc = "gg_read" /\ Moves(q))
          => (pr'[q].pc = "ev_read" /\ pr'[q].nflow = 0)]_vars

====
